---- MODULE Spec2Model ----
(***************************************************************************)
(* A model of exby (bin/exby.js, src/babelPlugin.js): the global-slot name *)
(* allocator, the build pipeline (output-path check, code splitting, the   *)
(* per-chunk IIFE transform, the flattened import lists, the manifest      *)
(* rewrite, the writes) and the Babel plugin's Program.exit.               *)
(*                                                                         *)
(* Strings the code inspects character by character (file names, import    *)
(* specifiers, identifiers) are sequences of one-character strings.        *)
(***************************************************************************)
EXTENDS Integers, Sequences, FiniteSets, TLC

VARIABLES
    varNameCache,     \* exby.js: the module-level Map of globalExportsVariableName
    generators,       \* babelPlugin.js: the caches of two makeIdentifierGenerator instances
    lastCall,         \* the last allocator call and what it returned
    pc,               \* position of the async main function of exby.js
    fsOutput,         \* the destination: "absent" | "exists" | "created"
    written,          \* names of the files written under the destination
    exitCode,         \* process exit code, -1 while running
    error,            \* the error that rejected the main function, or NoError
    manifest,         \* the manifest object
    entryPoints,      \* manifest script path -> absolute module id
    codeSplitOutput,  \* the chunks of the code-splitting build
    chunkIdx,         \* index of the chunk the transform loop is at
    outputFiles,      \* chunk file name -> transformed code
    dependencyMap,    \* manifest script path -> flatImportList of its chunk
    iifeOutput,       \* length of the output of the last IIFE build, 0 before the first
    pluginOut         \* babelPlugin.js: file -> the IIFE arguments Program.exit made

vars == << varNameCache, generators, lastCall, pc, fsOutput, written, exitCode,
           error, manifest, entryPoints, codeSplitOutput, chunkIdx, outputFiles,
           dependencyMap, iifeOutput, pluginOut >>

allocVars == << varNameCache, generators, lastCall >>
buildVars == << pc, fsOutput, written, exitCode, error, manifest, entryPoints,
                codeSplitOutput, chunkIdx, outputFiles, dependencyMap, iifeOutput >>

(***************************************************************************)
(* Sequence helpers.                                                       *)
(***************************************************************************)
Range(s) == { s[i] : i \in DOMAIN s }

RECURSIVE Flat(_)
\* [].concat(...lists)
Flat(lists) == IF lists = << >> THEN << >> ELSE Head(lists) \o Flat(Tail(lists))

\* arr.indexOf(val): the first index holding val (1-based), 0 when absent
IndexOf(arr, val) ==
    IF \E i \in DOMAIN arr : arr[i] = val
    THEN CHOOSE i \in DOMAIN arr : arr[i] = val /\ \A j \in 1..(i - 1) : arr[j] # val
    ELSE 0

\* Finite sequences over S of length at most n
SeqsUpTo(S, n) == UNION { [1..k -> S] : k \in 0..n }

(***************************************************************************)
(* Identifier allocation.                                                  *)
(***************************************************************************)
Letters == { "a", "b", "c", "d", "e", "f", "g", "h", "i", "j", "k", "l", "m",
             "n", "o", "p", "q", "r", "s", "t", "u", "v", "w", "x", "y", "z" }
UpperLetters == { "A", "B", "C", "D", "E", "F", "G", "H", "I", "J", "K", "L", "M",
                  "N", "O", "P", "Q", "R", "S", "T", "U", "V", "W", "X", "Y", "Z" }
Digits == { "0", "1", "2", "3", "4", "5", "6", "7", "8", "9" }

\* the characters /[^a-z0-9_]/gi leaves alone
IdentifierChars == Letters \cup UpperLetters \cup Digits \cup { "_" }

\* str.replace(/[^a-z0-9_]/gi, '_')
Sanitize(str) == [ i \in DOMAIN str |-> IF str[i] \in IdentifierChars THEN str[i] ELSE "_" ]

\* `${prefix}${str.replace(...)}${suffix}`
BaseName(prefix, suffix, str) == prefix \o Sanitize(str) \o suffix

RECURSIVE AddUntilUnique(_, _)
\* while ([...cache.values()].some(val => val === name)) name += '_'
AddUntilUnique(name, values) ==
    IF name \in values THEN AddUntilUnique(Append(name, "_"), values) ELSE name

EmptyCache == << >>

\* A mutant: the collision loop is missing.
AllocateNoCollisionLoop(cache, hit, prefix, suffix, str) ==
    IF hit
    THEN [ cache |-> cache, name |-> cache[str] ]
    ELSE [ cache |-> (str :> BaseName(prefix, suffix, str)) @@ cache,
           name  |-> BaseName(prefix, suffix, str) ]

\* A mutant: the early return on a cache hit is missing.
AllocateNoEarlyReturn(cache, hit, prefix, suffix, str) ==
    LET name == AddUntilUnique(BaseName(prefix, suffix, str), Range(cache))
    IN  [ cache |-> (str :> name) @@ cache, name |-> name ]

RECURSIVE Underscores(_)
Underscores(n) == IF n = 0 THEN << >> ELSE << "_" >> \o Underscores(n - 1)

\* A mutant: names are made unique by the number of names handed out so far.
AllocateByOrdinal(cache, hit, prefix, suffix, str) ==
    IF hit
    THEN [ cache |-> cache, name |-> cache[str] ]
    ELSE LET name == BaseName(prefix, suffix, str) \o Underscores(Cardinality(DOMAIN cache))
         IN  [ cache |-> (str :> name) @@ cache, name |-> name ]

\* The body both allocators share: the cached name on a hit, else the base name
\* extended until no cached value equals it, which is then cached.
Allocate(cache, hit, prefix, suffix, str) ==
    IF hit
    THEN [ cache |-> cache, name |-> cache[str] ]
    ELSE LET name == AddUntilUnique(BaseName(prefix, suffix, str), Range(cache))
         IN  [ cache |-> (str :> name) @@ cache, name |-> name ]

ExbyPrefix == << "_", "_", "E", "X", "B", "Y", "_", "M", "O", "D", "U", "L", "E", "_", "_" >>
ExbySuffix == << "_", "_" >>

\* exby.js globalExportsVariableName: a hit is `existing != null`
globalExportsVariableName(cache, chunkFileName) ==
    Allocate(cache, chunkFileName \in DOMAIN cache, ExbyPrefix, ExbySuffix, chunkFileName)

identifierPrefix == << "_", "_" >>
identifierSuffix == << "_", "_" >>

\* babelPlugin.js makeIdentifierGenerator: a hit is a truthy `existing`
generateUniqueIdentifier(cache, str) ==
    Allocate(cache, str \in DOMAIN cache /\ cache[str] # << >>,
             identifierPrefix, identifierSuffix, str)

(***************************************************************************)
(* The allocators called in any order, on any of a few file names.        *)
(***************************************************************************)
\* File names that are asked for a name: 'a/b.js' and 'a_b.js' sanitise to the
\* same text, 'a_b.js_' sanitises to that text plus an underscore, 'c.js' is
\* unrelated to the three.
AllocFileNames ==
    { << "a", "/", "b", ".", "j", "s" >>,
      << "a", "_", "b", ".", "j", "s" >>,
      << "a", "_", "b", ".", "j", "s", "_" >>,
      << "c", ".", "j", "s" >> }

Generators == { 1, 2 }

NoCall == [ fn |-> "none", g |-> 0, key |-> << >>, hit |-> FALSE, name |-> << >> ]

\* What is recorded of a call: the allocator, the key, whether the key was cached
\* already, the name returned
CallRecord(fn, g, key, cache, name) ==
    [ fn |-> fn, g |-> g, key |-> key, hit |-> key \in DOMAIN cache, name |-> name ]

\* exby.js: one call of globalExportsVariableName(chunkFileName)
CallGlobalExportsVariableName(chunkFileName) ==
    LET r == globalExportsVariableName(varNameCache, chunkFileName)
    IN  /\ varNameCache' = r.cache
        /\ lastCall' = CallRecord("globalExportsVariableName", 0, chunkFileName,
                                varNameCache, r.name)
        /\ UNCHANGED generators

\* babelPlugin.js: one call of the function makeIdentifierGenerator returned
CallGenerateUniqueIdentifier(g, str) ==
    LET r == generateUniqueIdentifier(generators[g], str)
    IN  /\ generators' = [ generators EXCEPT ![g] = r.cache ]
        /\ lastCall' = CallRecord("generateUniqueIdentifier", g, str, generators[g],
                                r.name)
        /\ UNCHANGED varNameCache

AllocateExby ==
    /\ \E chunkFileName \in AllocFileNames : CallGlobalExportsVariableName(chunkFileName)
    /\ UNCHANGED buildVars
    /\ UNCHANGED pluginOut

AllocateGenerator ==
    /\ \E g \in Generators : \E str \in AllocFileNames : CallGenerateUniqueIdentifier(g, str)
    /\ UNCHANGED buildVars
    /\ UNCHANGED pluginOut

InitAllocators ==
    /\ varNameCache = EmptyCache
    /\ generators = [ g \in Generators |-> EmptyCache ]
    /\ lastCall = NoCall

(***************************************************************************)
(* The build of exby.js: data.                                             *)
(***************************************************************************)
Null == << >>
Undefined == [ type |-> "undefined" ]
NoError == [ name |-> "none", message |-> "" ]

ManifestJson == << "m", "a", "n", "i", "f", "e", "s", "t", ".", "j", "s", "o", "n" >>

A_JS == << "a", ".", "j", "s" >>
B_JS == << "b", ".", "j", "s" >>
C_JS == << "c", ".", "j", "s" >>
D_JS == << "d", ".", "j", "s" >>
DotSlashA_JS == << ".", "/" >> \o A_JS

\* The script paths a manifest may name: './a.js' (the file a.js) and 'b.js'.
ScriptPaths == { DotSlashA_JS, B_JS }

\* The file names of the chunks of the code-splitting build, in output order.
ChunkFileNames == << A_JS, B_JS, C_JS, D_JS >>

MaxScripts == 2

RECURSIVE StripDotSlash(_)
\* a path without its leading './' segments
StripDotSlash(p) ==
    IF Len(p) >= 2 /\ p[1] = "." /\ p[2] = "/" THEN StripDotSlash(SubSeq(p, 3, Len(p))) ELSE p

\* path.resolve(manifestPath, '..', scriptPath), the manifest being /manifest.json
ResolveScriptPath(scriptPath) == << "/" >> \o StripDotSlash(scriptPath)

\* manifest.content_scripts || [] ; contentScript.js || []
ContentScripts(m) == IF m.hasContentScripts THEN m.content_scripts ELSE << >>
BlockJs(block) == IF block.hasJs THEN block.js ELSE << >>
BackgroundScripts(m) ==
    IF m.hasBackground /\ m.background.hasScripts THEN m.background.scripts ELSE << >>

ScriptLists == SeqsUpTo(ScriptPaths, MaxScripts)

Blocks == { [ hasJs |-> TRUE, js |-> l ] : l \in ScriptLists }
              \cup { [ hasJs |-> FALSE, js |-> << >> ] }

NoBackground == [ hasScripts |-> FALSE, scripts |-> << >> ]

Backgrounds == { [ hasScripts |-> TRUE, scripts |-> l ] : l \in ScriptLists }
                   \cup { NoBackground }

RECURSIVE JsCount(_)
\* The number of script paths the content-script blocks name
JsCount(cs) == IF cs = << >> THEN 0 ELSE Len(Head(cs).js) + JsCount(Tail(cs))

\* content_scripts: no block or one block
ContentScriptChoices == { << >> } \cup { << b >> : b \in Blocks }

\* content_scripts and background may be missing from a manifest that names no
\* script in them.
ManifestsOf(cs, bg) ==
    { [ hasContentScripts |-> hasCs, content_scripts |-> cs,
        hasBackground |-> hasBg, background |-> bg ] :
        hasCs \in IF cs = << >> THEN BOOLEAN ELSE { TRUE },
        hasBg \in IF bg = NoBackground THEN BOOLEAN ELSE { TRUE } }

ManifestsWith(cs) ==
    UNION { ManifestsOf(cs, bg) :
            bg \in { b \in Backgrounds : Len(b.scripts) + JsCount(cs) <= MaxScripts } }

\* The manifests a build may read: at most one content-script block and an
\* optional background block, naming at most MaxScripts scripts in all.
Manifests == UNION { ManifestsWith(cs) : cs \in ContentScriptChoices }

\* lines 77-89: every script path of the manifest, with its absolute path
EntryPointsOf(m) ==
    LET cs == ContentScripts(m)
        paths == UNION { Range(BlockJs(cs[i])) : i \in DOMAIN cs }
                     \cup Range(BackgroundScripts(m))
    IN  [ scriptPath \in paths |-> ResolveScriptPath(scriptPath) ]

\* Injective sequences over S: the import lists a chunk may have
OrderedSubsets(S) ==
    { s \in SeqsUpTo(S, Cardinality(S)) : \A i, j \in DOMAIN s : i # j => s[i] # s[j] }

NumChunks == Len(ChunkFileNames)

RECURSIVE ImportChoicesFrom(_)
ImportChoicesFrom(i) ==
    IF i > NumChunks
    THEN { << >> }
    ELSE { << s >> \o rest :
             s \in OrderedSubsets({ ChunkFileNames[j] : j \in (i + 1)..NumChunks }),
             rest \in ImportChoicesFrom(i + 1) }

\* The import lists of the chunks: a chunk imports chunks later in the output
\* only, so the graph is acyclic.
ImportChoices == ImportChoicesFrom(1)

\* The chunk of an input module has that module as its facadeModuleId; a module
\* may end up without such a chunk.
FacadeChoices(inputs) ==
    LET entryChunks == { i \in 1..NumChunks : << "/" >> \o ChunkFileNames[i] \in inputs }
    IN  { [ i \in 1..NumChunks |->
              IF i \in facades THEN << "/" >> \o ChunkFileNames[i] ELSE Null ] :
            facades \in SUBSET entryChunks }

\* codeSplitOutput.find(c => c.fileName === name)
FindByFileName(output, name) ==
    IF \E i \in DOMAIN output : output[i].fileName = name
    THEN output[CHOOSE i \in DOMAIN output :
                    /\ output[i].fileName = name
                    /\ \A j \in 1..(i - 1) : output[j].fileName # name]
    ELSE Undefined

\* codeSplitOutput.find(chunk => chunk.facadeModuleId === entryModuleID)
FindByFacade(output, entryModuleID) ==
    IF \E i \in DOMAIN output : output[i].facadeModuleId = entryModuleID
    THEN output[CHOOSE i \in DOMAIN output :
                    /\ output[i].facadeModuleId = entryModuleID
                    /\ \A j \in 1..(i - 1) : output[j].facadeModuleId # entryModuleID]
    ELSE Undefined

(***************************************************************************)
(* The build of exby.js: the IIFE transform of one chunk.                  *)
(***************************************************************************)
\* Index of the last '/' of a path, 0 when it has none
LastSlash(p) ==
    IF \E i \in DOMAIN p : p[i] = "/"
    THEN CHOOSE i \in DOMAIN p : p[i] = "/" /\ \A j \in (i + 1)..Len(p) : p[j] # "/"
    ELSE 0

DirName(p) == SubSeq(p, 1, LastSlash(p) - 1)
BaseFileName(p) == SubSeq(p, LastSlash(p) + 1, Len(p))

\* The specifier by which the module at path `importer` imports the module at
\* path `importee`: the path of the importee relative to the importer's
\* directory, starting with './' or '../' (directories at most one level deep).
ImportSpecifier(importer, importee) ==
    IF DirName(importer) = DirName(importee)
    THEN << ".", "/" >> \o BaseFileName(importee)
    ELSE IF DirName(importer) = << >>
         THEN << ".", "/" >> \o importee
         ELSE << ".", ".", "/" >> \o importee

\* resolveId: id.replace(/^\.?\.\//, '')
resolveId(id) ==
    IF Len(id) >= 3 /\ SubSeq(id, 1, 3) = << ".", ".", "/" >>
    THEN SubSeq(id, 4, Len(id))
    ELSE IF Len(id) >= 2 /\ SubSeq(id, 1, 2) = << ".", "/" >>
         THEN SubSeq(id, 3, Len(id))
         ELSE id

RECURSIVE LoadImports(_, _, _, _, _)
\* The load hook, called for the imports of the chunk's code in turn: each is read
\* from the global variable of the chunk its resolved id names; an id that names
\* no chunk makes `importedModule.exports` throw.
LoadImports(cache, last, output, importer, imports) ==
    IF imports = << >>
    THEN [ ok |-> TRUE, cache |-> cache, last |-> last, reads |-> << >> ]
    ELSE LET id == resolveId(ImportSpecifier(importer, Head(imports)))
             importedModule == FindByFileName(output, id)
         IN  IF importedModule = Undefined
             THEN [ ok |-> FALSE, cache |-> cache, last |-> last, reads |-> << >> ]
             ELSE LET r == globalExportsVariableName(cache, id)
                      call == CallRecord("globalExportsVariableName", 0, id, cache, r.name)
                      rest == LoadImports(r.cache, call, output, importer, Tail(imports))
                  IN  [ ok |-> rest.ok, cache |-> rest.cache, last |-> rest.last,
                        reads |-> << [ importee |-> Head(imports), slot |-> r.name ] >>
                                      \o rest.reads ]

\* The numbers of outputs the IIFE build of a chunk may have
IifeOutputLengths == { 1, 2 }

(***************************************************************************)
(* The build of exby.js: flattened import lists and the manifest rewrite.  *)
(***************************************************************************)
RECURSIVE flatImportListSelfFirst(_, _)
\* A mutant: the chunk's own file name is put before its imports.
flatImportListSelfFirst(output, chunk) ==
    IF chunk = Undefined
    THEN << >>
    ELSE << chunk.fileName >>
             \o Flat([ i \in DOMAIN chunk.imports |->
                         flatImportListSelfFirst(output,
                             FindByFileName(output, chunk.imports[i])) ])

\* A mutant: the imports of the imports are left out.
flatImportListShallow(output, chunk) ==
    IF chunk = Undefined THEN << >> ELSE chunk.imports \o << chunk.fileName >>

RECURSIVE flatImportList(_, _)
\* lines 232-236
flatImportList(output, chunk) ==
    IF chunk = Undefined
    THEN << >>
    ELSE LET nestedImports ==
                 [ i \in DOMAIN chunk.imports |->
                     flatImportList(output, FindByFileName(output, chunk.imports[i])) ]
         IN  Flat(nestedImports) \o << chunk.fileName >>

\* lines 237-241
DependencyMapOf(output, entries) ==
    [ entryPath \in DOMAIN entries |->
        flatImportList(output, FindByFacade(output, entries[entryPath])) ]

\* list.splice(i, 1, ...items), i counted from 1
Splice(list, i, items) == SubSeq(list, 1, i - 1) \o items \o SubSeq(list, i + 1, Len(list))

RECURSIVE SpliceBackwards(_, _, _)
\* for (let i = list.length - 1; i >= 0; i -= 1) list.splice(i, 1, ...depMap[list[i]])
SpliceBackwards(list, i, depMap) ==
    IF i < 1 THEN list ELSE SpliceBackwards(Splice(list, i, depMap[list[i]]), i - 1, depMap)

RECURSIVE SpliceDownTo(_, _, _, _)
SpliceDownTo(list, i, lowest, depMap) ==
    IF i < lowest THEN list
    ELSE SpliceDownTo(Splice(list, i, depMap[list[i]]), i - 1, lowest, depMap)

RECURSIVE FilterFrom(_, _)
\* arr.filter((val, i, arr) => arr.indexOf(val) === i), from index i on
FilterFrom(arr, i) ==
    IF i > Len(arr)
    THEN << >>
    ELSE (IF IndexOf(arr, arr[i]) = i THEN << arr[i] >> ELSE << >>) \o FilterFrom(arr, i + 1)

\* A mutant: the filter keeps the last occurrence of a value, not the first.
FilterUniqueKeepsLast(arr) ==
    LET keep(i) == \A j \in (i + 1)..Len(arr) : arr[j] # arr[i]
        RECURSIVE From(_)
        From(i) == IF i > Len(arr) THEN << >>
                   ELSE (IF keep(i) THEN << arr[i] >> ELSE << >>) \o From(i + 1)
    IN  From(1)

\* A mutant: the filter is missing.
FilterUniqueMissing(arr) == arr

FilterUnique(arr) == FilterFrom(arr, 1)

\* A mutant: the loop ends at `i > 0`, so the first script is never replaced.
ExpandScriptListSkipsFirst(list, depMap) ==
    FilterUnique(SpliceDownTo(list, Len(list), 2, depMap))

\* lines 249-252 and 256-259: one script list, expanded and filtered
ExpandScriptList(list, depMap) == FilterUnique(SpliceBackwards(list, Len(list), depMap))

\* lines 247-260
RewriteManifestOf(m, depMap) ==
    [ m EXCEPT
        !.content_scripts =
            [ b \in DOMAIN m.content_scripts |->
                IF m.content_scripts[b].hasJs
                THEN [ m.content_scripts[b] EXCEPT !.js = ExpandScriptList(@, depMap) ]
                ELSE m.content_scripts[b] ],
        !.background =
            IF m.hasBackground /\ m.background.hasScripts
            THEN [ m.background EXCEPT !.scripts = ExpandScriptList(@, depMap) ]
            ELSE m.background ]

(***************************************************************************)
(* The build of exby.js: the steps of the async main function.             *)
(***************************************************************************)
Reject(name, message) ==
    /\ pc' = "rejected"
    /\ error' = [ name |-> name, message |-> message ]
    /\ UNCHANGED exitCode   \* an unhandled rejection: the program sets no exit code

\* line 60: fs.stat of the manifest path, which throws when the input is missing
StatManifest ==
    /\ pc = "start"
    /\ \E found \in BOOLEAN :
          IF found
          THEN pc' = "checkOutput" /\ UNCHANGED << error, exitCode >>
          ELSE Reject("Error", "ENOENT")
    /\ UNCHANGED << fsOutput, written, manifest, entryPoints, codeSplitOutput, chunkIdx,
                    outputFiles, dependencyMap >>
    /\ UNCHANGED allocVars
    /\ UNCHANGED << pluginOut, iifeOutput >>

\* A mutant: the message is logged and the build goes on.
CheckOutputPathGoesOn ==
    /\ pc = "checkOutput"
    /\ pc' = "readManifest"
    /\ UNCHANGED << fsOutput, written, exitCode, error, manifest, entryPoints,
                    codeSplitOutput, chunkIdx, outputFiles, dependencyMap >>
    /\ UNCHANGED allocVars
    /\ UNCHANGED << pluginOut, iifeOutput >>

\* lines 66-70: the output path must not exist
CheckOutputPath ==
    /\ pc = "checkOutput"
    /\ IF fsOutput # "absent"
       THEN pc' = "exited" /\ exitCode' = 1
       ELSE pc' = "readManifest" /\ UNCHANGED exitCode
    /\ UNCHANGED << fsOutput, written, error, manifest, entryPoints, codeSplitOutput,
                    chunkIdx, outputFiles, dependencyMap >>
    /\ UNCHANGED allocVars
    /\ UNCHANGED << pluginOut, iifeOutput >>

\* lines 73-89: the manifest is read and parsed, its script paths become entry points
ReadManifest ==
    /\ pc = "readManifest"
    /\ \E m \in Manifests :
          /\ manifest' = m
          /\ entryPoints' = EntryPointsOf(m)
    /\ pc' = "codeSplit"
    /\ UNCHANGED << fsOutput, written, exitCode, error, codeSplitOutput, chunkIdx,
                    outputFiles, dependencyMap >>
    /\ UNCHANGED allocVars
    /\ UNCHANGED << pluginOut, iifeOutput >>

\* line 73: the manifest is not JSON
ReadManifestFails ==
    /\ pc = "readManifest"
    /\ Reject("SyntaxError", "JSON.parse")
    /\ UNCHANGED << fsOutput, written, manifest, entryPoints, codeSplitOutput, chunkIdx,
                    outputFiles, dependencyMap >>
    /\ UNCHANGED allocVars
    /\ UNCHANGED << pluginOut, iifeOutput >>

\* lines 109-135: the code-splitting build hands back its chunks
CodeSplit ==
    /\ pc = "codeSplit"
    /\ \E g \in ImportChoices : \E f \in FacadeChoices(Range(entryPoints)) :
          codeSplitOutput' =
              [ i \in 1..NumChunks |->
                  [ type |-> "chunk", fileName |-> ChunkFileNames[i], imports |-> g[i],
                    facadeModuleId |-> f[i] ] ]
    /\ chunkIdx' = 1
    /\ pc' = "transform"
    /\ UNCHANGED << fsOutput, written, exitCode, error, manifest, entryPoints, outputFiles,
                    dependencyMap >>
    /\ UNCHANGED allocVars
    /\ UNCHANGED << pluginOut, iifeOutput >>

\* lines 109-135: the code-splitting build fails
CodeSplitFails ==
    /\ pc = "codeSplit"
    /\ Reject("RollupError", "code splitting")
    /\ UNCHANGED << fsOutput, written, manifest, entryPoints, codeSplitOutput, chunkIdx,
                    outputFiles, dependencyMap >>
    /\ UNCHANGED allocVars
    /\ UNCHANGED << pluginOut, iifeOutput >>

\* lines 165-226: one turn of the loop over the chunks
TransformChunk ==
    /\ pc = "transform"
    /\ chunkIdx <= NumChunks
    /\ LET chunk == codeSplitOutput[chunkIdx]
           loaded == LoadImports(varNameCache, lastCall, codeSplitOutput, chunk.fileName,
                                 chunk.imports)
           own == globalExportsVariableName(loaded.cache, chunk.fileName)
           ownCall == CallRecord("globalExportsVariableName", 0, chunk.fileName,
                                 loaded.cache, own.name)
       IN  IF chunk.type # "chunk"
           THEN /\ chunkIdx' = chunkIdx + 1
                /\ pc' = IF chunkIdx = NumChunks THEN "flatten" ELSE "transform"
                /\ UNCHANGED << varNameCache, lastCall, outputFiles, error, exitCode,
                                iifeOutput >>
           ELSE IF ~loaded.ok
           THEN /\ varNameCache' = loaded.cache
                /\ lastCall' = loaded.last
                /\ Reject("TypeError", "Cannot read properties of undefined")
                /\ UNCHANGED << chunkIdx, outputFiles, iifeOutput >>
           ELSE \E outcome \in { "built", "failed" } : \E n \in IifeOutputLengths :
                   IF outcome = "failed"
                   THEN /\ n = 1
                        /\ varNameCache' = loaded.cache
                        /\ lastCall' = loaded.last
                        /\ Reject("RollupError", "IIFE build")
                        /\ UNCHANGED << chunkIdx, outputFiles, iifeOutput >>
                   ELSE /\ varNameCache' = own.cache
                        /\ lastCall' = ownCall
                        /\ iifeOutput' = n
                        /\ IF n # 1
                           THEN \* line 221: the message reads `chunkId`, which nothing defines
                                /\ Reject("ReferenceError", "chunkId is not defined")
                                /\ UNCHANGED << chunkIdx, outputFiles >>
                           ELSE /\ outputFiles' =
                                       (chunk.fileName :>
                                           [ assigns |-> own.name, reads |-> loaded.reads ])
                                       @@ outputFiles
                                /\ chunkIdx' = chunkIdx + 1
                                /\ pc' = IF chunkIdx = NumChunks THEN "flatten"
                                         ELSE "transform"
                                /\ UNCHANGED << error, exitCode >>
    /\ UNCHANGED << fsOutput, written, manifest, entryPoints, codeSplitOutput,
                    dependencyMap >>
    /\ UNCHANGED << generators, pluginOut >>

\* lines 232-241
Flatten ==
    /\ pc = "flatten"
    /\ dependencyMap' = DependencyMapOf(codeSplitOutput, entryPoints)
    /\ pc' = "rewrite"
    /\ UNCHANGED << fsOutput, written, exitCode, error, manifest, entryPoints,
                    codeSplitOutput, chunkIdx, outputFiles >>
    /\ UNCHANGED allocVars
    /\ UNCHANGED << pluginOut, iifeOutput >>

\* lines 247-260
RewriteManifest ==
    /\ pc = "rewrite"
    /\ manifest' = RewriteManifestOf(manifest, dependencyMap)
    /\ pc' = "mkdir"
    /\ UNCHANGED << fsOutput, written, exitCode, error, entryPoints, codeSplitOutput,
                    chunkIdx, outputFiles, dependencyMap >>
    /\ UNCHANGED allocVars
    /\ UNCHANGED << pluginOut, iifeOutput >>

\* line 263
Mkdir ==
    /\ pc = "mkdir"
    /\ IF fsOutput = "absent"
       THEN fsOutput' = "created" /\ pc' = "writeManifest" /\ UNCHANGED << error, exitCode >>
       ELSE Reject("Error", "EEXIST") /\ UNCHANGED fsOutput
    /\ UNCHANGED << written, manifest, entryPoints, codeSplitOutput,
                    chunkIdx, outputFiles, dependencyMap >>
    /\ UNCHANGED allocVars
    /\ UNCHANGED << pluginOut, iifeOutput >>

\* line 264
WriteManifest ==
    /\ pc = "writeManifest"
    /\ written' = written \cup { ManifestJson }
    /\ pc' = "writeFiles"
    /\ UNCHANGED << fsOutput, exitCode, error, manifest, entryPoints, codeSplitOutput,
                    chunkIdx, outputFiles, dependencyMap >>
    /\ UNCHANGED allocVars
    /\ UNCHANGED << pluginOut, iifeOutput >>

\* lines 265-268: Promise.all starts the write of every output file at once
WriteOutputFiles ==
    /\ pc = "writeFiles"
    /\ written' = written \cup DOMAIN outputFiles
    /\ pc' = "done"
    /\ exitCode' = 0
    /\ UNCHANGED << fsOutput, error, manifest, entryPoints, codeSplitOutput,
                    chunkIdx, outputFiles, dependencyMap >>
    /\ UNCHANGED allocVars
    /\ UNCHANGED << pluginOut, iifeOutput >>

InitBuild ==
    /\ pc = "start"
    /\ fsOutput \in { "absent", "exists" }
    /\ written = { }
    /\ exitCode = -1
    /\ error = NoError
    /\ manifest = Undefined
    /\ entryPoints = << >>
    /\ codeSplitOutput = << >>
    /\ chunkIdx = 0
    /\ outputFiles = << >>
    /\ dependencyMap = << >>
    /\ iifeOutput = 0

Init ==
    /\ InitAllocators
    /\ InitBuild
    /\ pluginOut = << >>

Next ==
    \/ StatManifest
    \/ CheckOutputPath
    \/ ReadManifest
    \/ ReadManifestFails
    \/ CodeSplit
    \/ CodeSplitFails
    \/ TransformChunk
    \/ Flatten
    \/ RewriteManifest
    \/ Mkdir
    \/ WriteManifest
    \/ WriteOutputFiles

Spec == Init /\ [][Next]_vars

(***************************************************************************)
(* The allocators on their own.                                            *)
(***************************************************************************)
InitAlloc ==
    /\ InitAllocators
    /\ InitBuild
    /\ fsOutput = "absent"
    /\ pluginOut = << >>

NextAlloc ==
    \/ AllocateExby
    \/ AllocateGenerator

SpecAlloc == InitAlloc /\ [][NextAlloc]_vars

(***************************************************************************)
(* babelPlugin.js: Program.exit on the modules of a small project.         *)
(***************************************************************************)
P_JS == << "p", ".", "j", "s" >>
Q_JS == << "q", ".", "j", "s" >>
S_P_JS == << "s", "/" >> \o P_JS
S_Q_JS == << "s", "/" >> \o Q_JS

\* The module files of the project, as paths from the working directory
PluginFiles == { P_JS, Q_JS, S_P_JS, S_Q_JS }

MaxSources == 1

\* relativePath(cwd, path), for a file name below cwd or an import specifier,
\* which path.relative resolves against the working directory
relativePath(path) == StripDotSlash(path)

RECURSIVE ImportArguments(_, _, _, _)
\* lines 103-109: one argument per imported module, named from the specifier
ImportArguments(cache, last, file, importees) ==
    IF importees = << >>
    THEN [ cache |-> cache, last |-> last, args |-> << >> ]
    ELSE LET sourcePath == ImportSpecifier(file, Head(importees))
             id == relativePath(sourcePath)
             r == generateUniqueIdentifier(cache, id)
             call == CallRecord("generateUniqueIdentifier", 1, id, cache, r.name)
             rest == ImportArguments(r.cache, call, file, Tail(importees))
         IN  [ cache |-> rest.cache, last |-> rest.last,
               args |-> << [ source |-> sourcePath, module |-> Head(importees),
                             argument |-> r.name ] >> \o rest.args ]

\* lines 72-131: Program.exit on the module `file`, which has exports or not and
\* imports the modules `importees` by their paths relative to its own directory
ProgramExit ==
    /\ \E file \in PluginFiles \ DOMAIN pluginOut : \E hasExports \in BOOLEAN :
       \E importees \in { l \in OrderedSubsets(PluginFiles \ { file }) : Len(l) <= MaxSources } :
          LET cache == generators[1]
              own == generateUniqueIdentifier(cache, relativePath(file))
              ownCall == CallRecord("generateUniqueIdentifier", 1, relativePath(file),
                                    cache, own.name)
              imports == ImportArguments(IF hasExports THEN own.cache ELSE cache,
                                         IF hasExports THEN ownCall ELSE lastCall,
                                         file, importees)
          IN  /\ generators' = [ generators EXCEPT ![1] = imports.cache ]
              /\ lastCall' = imports.last
              /\ pluginOut' =
                     (file :> [ exportArgument |-> IF hasExports THEN own.name ELSE Null,
                                importArguments |-> imports.args ])
                     @@ pluginOut
    /\ UNCHANGED varNameCache
    /\ UNCHANGED buildVars

InitPlugin ==
    /\ InitAllocators
    /\ InitBuild
    /\ fsOutput = "absent"
    /\ pluginOut = << >>

NextPlugin == ProgramExit

SpecPlugin == InitPlugin /\ [][NextPlugin]_vars

\* C10: the global a module's IIFE reads an imported module's exports from is the
\* global that module's IIFE assigns its exports to.
C10_ImportReadsExportersSlot ==
    \A file \in DOMAIN pluginOut :
       \A i \in DOMAIN pluginOut[file].importArguments :
          LET arg == pluginOut[file].importArguments[i]
          IN  (arg.module \in DOMAIN pluginOut
                  /\ pluginOut[arg.module].exportArgument # Null)
                 => arg.argument = pluginOut[arg.module].exportArgument

(***************************************************************************)
(* Properties of the build (specification Spec).                           *)
(***************************************************************************)
ChunkNamesOf(output) == { output[i].fileName : i \in DOMAIN output }

\* The chunks a chunk imports directly
DirectImports(output, name) ==
    LET c == FindByFileName(output, name)
    IN  IF c = Undefined THEN { } ELSE Range(c.imports) \cap ChunkNamesOf(output)

RECURSIVE ImportClosure(_, _, _)
ImportClosure(output, names, k) ==
    IF k = 0
    THEN names
    ELSE ImportClosure(output,
                       names \cup UNION { DirectImports(output, n) : n \in names }, k - 1)

\* The chunks a chunk imports directly or transitively
TransitiveImports(output, name) ==
    ImportClosure(output, DirectImports(output, name), Len(output))

RECURSIVE PathCount(_, _, _)
\* The number of import paths from chunk `from` to chunk `to`
PathCount(output, from, to) ==
    IF from = to
    THEN 1
    ELSE LET c == FindByFileName(output, from)
             RECURSIVE Sum(_)
             Sum(i) == IF i = 0 THEN 0
                       ELSE PathCount(output, c.imports[i], to) + Sum(i - 1)
         IN  IF c = Undefined THEN 0 ELSE Sum(Len(c.imports))

Occurrences(list, x) == Cardinality({ i \in DOMAIN list : list[i] = x })
HasDuplicates(list) == \E i, j \in DOMAIN list : i < j /\ list[i] = list[j]

\* The script lists of a manifest, one per execution context
ContextLists(m) ==
    { BlockJs(ContentScripts(m)[b]) : b \in DOMAIN ContentScripts(m) }
        \cup { BackgroundScripts(m) }

RECURSIVE KeepFirst(_, _)
\* `list` without the values of `seen` and without repeats, first occurrences kept
KeepFirst(list, seen) ==
    IF list = << >> THEN << >>
    ELSE IF Head(list) \in seen THEN KeepFirst(Tail(list), seen)
    ELSE << Head(list) >> \o KeepFirst(Tail(list), seen \cup { Head(list) })

\* The flattened lists of the entries of `list`, one after the other
ConcatExpansions(list, depMap) == Flat([ i \in DOMAIN list |-> depMap[list[i]] ])

Flattened == pc \in { "rewrite", "mkdir", "writeManifest", "writeFiles", "done" }
Rewritten == pc \in { "mkdir", "writeManifest", "writeFiles", "done" }

\* Every occurrence of a chunk in `list` comes after an occurrence of every chunk
\* it imports, directly or transitively.
DependenciesFirst(output, list) ==
    \A i \in DOMAIN list : \A d \in TransitiveImports(output, list[i]) :
        \E j \in 1..(i - 1) : list[j] = d

\* No chunk of `list` imports, directly or transitively, a chunk further on in it.
NoLaterImport(output, list) ==
    \A i \in DOMAIN list : \A j \in (i + 1)..Len(list) :
        list[j] \notin TransitiveImports(output, list[i])

\* C1: once the manifest is rewritten, in the script list of every execution
\* context every chunk comes after every chunk it imports directly or
\* transitively.
C1_LoadOrder ==
    Rewritten => \A list \in ContextLists(manifest) :
                     DependenciesFirst(codeSplitOutput, list)

\* A context whose rewritten list holds all the chunks of an entry whose
\* flattened list repeats a shared chunk.
C1_Witness ==
    /\ pc = "done"
    /\ \E list \in ContextLists(manifest) : \E k \in DOMAIN dependencyMap :
          /\ HasDuplicates(dependencyMap[k])
          /\ Range(dependencyMap[k]) \subseteq Range(list)
          /\ Len(list) = NumChunks

\* C2 as stated: in the flattened list of every entry, no chunk imports a chunk
\* that occurs further on in the list.
C2_NoLaterImportInFlatList ==
    Flattened => \A k \in DOMAIN dependencyMap :
                     NoLaterImport(codeSplitOutput, dependencyMap[k])

\* C2 amended: in the flattened list of every entry, every occurrence of a chunk
\* comes after an occurrence of every chunk it imports directly or transitively,
\* and once the repeats are filtered out (first occurrences kept) no chunk
\* imports a chunk further on in the list.
C2_DependenciesFirstInFlatList ==
    Flattened => \A k \in DOMAIN dependencyMap :
                     /\ DependenciesFirst(codeSplitOutput, dependencyMap[k])
                     /\ NoLaterImport(codeSplitOutput, FilterUnique(dependencyMap[k]))

\* An entry whose flattened list repeats a chunk that two of its chunks import.
C2_Witness ==
    /\ Flattened
    /\ \E k \in DOMAIN dependencyMap :
          LET list == dependencyMap[k]
          IN  \E i, j \in DOMAIN list :
                 /\ i < j
                 /\ list[j] \in DirectImports(codeSplitOutput, list[i])
                 /\ Len(list) > Cardinality(Range(list))

\* C3 as stated: the flattened list of an entry holds no file name twice.
C3_NoDuplicateInFlatList ==
    Flattened => \A k \in DOMAIN dependencyMap : ~HasDuplicates(dependencyMap[k])

\* C3 amended: the flattened list of an entry holds a file name once for every
\* import path from the entry's chunk to that chunk (so more than once for a
\* chunk shared by two imports), and the rewritten script lists, which are
\* filtered, hold no file name twice.
C3_OncePerPathAndUniqueAfterFilter ==
    /\ Flattened =>
          \A k \in DOMAIN dependencyMap :
             LET entryChunk == FindByFacade(codeSplitOutput, entryPoints[k])
             IN  entryChunk # Undefined =>
                    \A n \in ChunkNamesOf(codeSplitOutput) :
                       Occurrences(dependencyMap[k], n)
                           = PathCount(codeSplitOutput, entryChunk.fileName, n)
    /\ Rewritten => \A list \in ContextLists(manifest) : ~HasDuplicates(list)

\* A diamond: the entry's chunk imports two chunks that import the same chunk,
\* which the flattened list names twice and the rewritten list once.
C3_Witness ==
    /\ Rewritten
    /\ \E k \in DOMAIN dependencyMap : \E n \in ChunkNamesOf(codeSplitOutput) :
          /\ Occurrences(dependencyMap[k], n) = 2
          /\ Cardinality({ m \in Range(dependencyMap[k]) :
                             n \in DirectImports(codeSplitOutput, m) }) = 2
          /\ \E list \in ContextLists(manifest) :
                Range(dependencyMap[k]) \subseteq Range(list)

\* C4: the rewrite turns every script list into the concatenation, in list order,
\* of the flattened lists of its entries, with the repeats left out and first
\* occurrences kept.
C4_RewriteIsFilteredConcatenation ==
    [][ pc = "rewrite" =>
          /\ \A b \in DOMAIN ContentScripts(manifest) :
                BlockJs(ContentScripts(manifest')[b])
                    = KeepFirst(ConcatExpansions(BlockJs(ContentScripts(manifest)[b]),
                                                 dependencyMap), { })
          /\ BackgroundScripts(manifest')
                = KeepFirst(ConcatExpansions(BackgroundScripts(manifest), dependencyMap),
                            { }) ]_vars

\* The list [A, B] with A -> [x, A] and B -> [x, y, B] has become [x, A, y, B].
C4_Witness ==
    /\ Rewritten
    /\ DotSlashA_JS \in DOMAIN dependencyMap /\ B_JS \in DOMAIN dependencyMap
    /\ dependencyMap[DotSlashA_JS] = << C_JS, A_JS >>
    /\ dependencyMap[B_JS] = << C_JS, D_JS, B_JS >>
    /\ BackgroundScripts(manifest) = << C_JS, A_JS, D_JS, B_JS >>

\* C5: the flattened list of an entry whose chunk exists names exactly the chunks
\* reachable from that chunk, the chunk itself included and last; the list of an
\* entry without a chunk is empty.
C5_FlatListIsReachableSet ==
    Flattened =>
       \A k \in DOMAIN dependencyMap :
          LET entryChunk == FindByFacade(codeSplitOutput, entryPoints[k])
              list == dependencyMap[k]
          IN  IF entryChunk = Undefined
              THEN list = << >>
              ELSE /\ Range(list) = { entryChunk.fileName }
                                       \cup TransitiveImports(codeSplitOutput,
                                                              entryChunk.fileName)
                   /\ list[Len(list)] = entryChunk.fileName

\* One entry reaches a chunk only through another chunk, another entry has no chunk.
C5_Witness ==
    /\ Flattened
    /\ \E k1, k2 \in DOMAIN dependencyMap :
          /\ dependencyMap[k1] = << >>
          /\ dependencyMap[k2] # << >>
          /\ LET name == dependencyMap[k2][Len(dependencyMap[k2])]
             IN  TransitiveImports(codeSplitOutput, name)
                     # DirectImports(codeSplitOutput, name)

\* C9: nothing is created or written at the destination unless it did not exist
\* when checked and every chunk has been transformed; a destination that exists
\* ends the build with exit code 1, and a build that failed has written nothing.
C9_NoWriteUnlessCheckedAndBuilt ==
    /\ (fsOutput = "created" \/ written # { }) =>
          /\ fsOutput = "created"
          /\ error = NoError
          /\ DOMAIN outputFiles = ChunkNamesOf(codeSplitOutput)
          /\ codeSplitOutput # << >>
    /\ fsOutput = "exists" =>
          /\ written = { }
          /\ pc \in { "start", "checkOutput", "exited", "rejected" }
          /\ pc = "rejected" => error.message = "ENOENT"
    /\ pc = "exited" <=> exitCode = 1
    /\ pc = "rejected" => written = { } /\ fsOutput # "created"

\* A build stopped by the existing destination, having written nothing.
C9_Witness ==
    /\ pc = "exited"
    /\ fsOutput = "exists"
    /\ exitCode = 1
    /\ written = { }

\* The message of line 221 for a chunk and a number of outputs, by its parts
IifeBuildMessage(fileName, n) ==
    << "IIFE build of ", fileName, " generated ", n, " outputs" >>

\* C11: when the IIFE build of a chunk has given a number of outputs other than
\* one, the build is rejected with an Error whose message names that chunk's file
\* name and the number of outputs, and nothing is written at the destination.
C11_AbortNamesChunk ==
    iifeOutput \notin { 0, 1 } =>
        /\ pc = "rejected"
        /\ written = { }
        /\ fsOutput # "created"
        /\ error.name = "Error"
        /\ error.message = IifeBuildMessage(codeSplitOutput[chunkIdx].fileName, iifeOutput)

(***************************************************************************)
(* Properties of the allocators (specification SpecAlloc).                 *)
(***************************************************************************)
Injective(cache) ==
    \A k1, k2 \in DOMAIN cache : k1 # k2 => cache[k1] # cache[k2]

AllCaches == { varNameCache } \cup { generators[g] : g \in Generators }

\* C6: after any calls, no allocator's cache maps two file names to one variable
\* name.
C6_CacheInjective == \A cache \in AllCaches : Injective(cache)

A_SLASH_B_JS == << "a", "/", "b", ".", "j", "s" >>
A_UNDER_B_JS == << "a", "_", "b", ".", "j", "s" >>
A_UNDER_B_JS_UNDER == << "a", "_", "b", ".", "j", "s", "_" >>

\* 'a/b.js' and 'a_b.js', which sanitise to one text, and 'a_b.js_', whose base
\* name is that text's second name, are all cached, none under its base name
\* twice.
C6_Witness ==
    /\ { A_SLASH_B_JS, A_UNDER_B_JS, A_UNDER_B_JS_UNDER } \subseteq DOMAIN varNameCache
    /\ varNameCache[A_UNDER_B_JS]
           = BaseName(ExbyPrefix, ExbySuffix, A_UNDER_B_JS) \o << "_" >>
    /\ varNameCache[A_UNDER_B_JS_UNDER]
           = BaseName(ExbyPrefix, ExbySuffix, A_UNDER_B_JS_UNDER) \o << "_" >>
    /\ \E g \in Generators :
          /\ { A_SLASH_B_JS, A_UNDER_B_JS } \subseteq DOMAIN generators[g]
          /\ generators[g][A_SLASH_B_JS]
                 = BaseName(identifierPrefix, identifierSuffix, A_SLASH_B_JS) \o << "_" >>

\* Every entry of `before` is an entry of `after`.
CacheKept(before, after) ==
    \A k \in DOMAIN before : k \in DOMAIN after /\ after[k] = before[k]

\* The cache a recorded call was made on
CacheOfCall(call, exbyCache, generatorCaches) ==
    IF call.g = 0 THEN exbyCache ELSE generatorCaches[call.g]

\* C7: a call never changes or removes a cache entry, and it returns the name
\* cached for its key: the name cached before the call when there was one.
C7_IdempotentAndGrowing ==
    [][ /\ CacheKept(varNameCache, varNameCache')
        /\ \A g \in Generators : CacheKept(generators[g], generators'[g])
        /\ lastCall' # lastCall =>
              LET before == CacheOfCall(lastCall', varNameCache, generators)
                  after == CacheOfCall(lastCall', varNameCache', generators')
              IN  /\ lastCall'.key \in DOMAIN after
                  /\ lastCall'.name = after[lastCall'.key]
                  /\ lastCall'.key \in DOMAIN before =>
                        /\ lastCall'.hit
                        /\ lastCall'.name = before[lastCall'.key] ]_vars

\* A call on a key cached earlier, with other keys cached since, has returned the
\* name made for it then, which is not its base name.
C7_Witness ==
    /\ lastCall.hit
    /\ lastCall.g = 0
    /\ lastCall.key = A_UNDER_B_JS
    /\ lastCall.name = BaseName(ExbyPrefix, ExbySuffix, A_UNDER_B_JS) \o << "_" >>
    /\ DOMAIN varNameCache = AllocFileNames

\* C8 as stated: two allocators that were asked for the same file names, in
\* whatever order, give every file name the same variable name.
C8_SameNamesInAnyOrder ==
    DOMAIN generators[1] = DOMAIN generators[2] => generators[1] = generators[2]

\* `a` is `b` followed by underscores only (none included).
UnderscoreExtension(a, b) ==
    /\ Len(a) >= Len(b)
    /\ SubSeq(a, 1, Len(b)) = b
    /\ \A i \in (Len(b) + 1)..Len(a) : a[i] = "_"

\* Two file names whose base names are equal up to trailing underscores
Conflict(prefix, suffix, k1, k2) ==
    \/ UnderscoreExtension(BaseName(prefix, suffix, k1), BaseName(prefix, suffix, k2))
    \/ UnderscoreExtension(BaseName(prefix, suffix, k2), BaseName(prefix, suffix, k1))

Unconflicted(prefix, suffix, cache, k) ==
    \A k2 \in DOMAIN cache \ { k } : ~Conflict(prefix, suffix, k, k2)

\* C8 amended: a file name whose base name (prefix, sanitised name, suffix) is
\* not equal, up to trailing underscores, to the base name of another file name
\* the allocator was asked for gets its base name, whatever the order of the
\* calls: two allocators asked for the same file names agree on it.
C8_SameNameUnlessConflict ==
    /\ \A k \in DOMAIN varNameCache :
          Unconflicted(ExbyPrefix, ExbySuffix, varNameCache, k) =>
             varNameCache[k] = BaseName(ExbyPrefix, ExbySuffix, k)
    /\ \A g \in Generators : \A k \in DOMAIN generators[g] :
          Unconflicted(identifierPrefix, identifierSuffix, generators[g], k) =>
             generators[g][k] = BaseName(identifierPrefix, identifierSuffix, k)
    /\ DOMAIN generators[1] = DOMAIN generators[2] =>
          \A k \in DOMAIN generators[1] :
             Unconflicted(identifierPrefix, identifierSuffix, generators[1], k) =>
                generators[1][k] = generators[2][k]

\* Two allocators asked for the same file names in different orders: they agree
\* on 'c.js' and differ on the names that sanitise to one text.
C8_Witness ==
    /\ DOMAIN generators[1] = AllocFileNames
    /\ DOMAIN generators[2] = AllocFileNames
    /\ generators[1][C_JS] = generators[2][C_JS]
    /\ generators[1][A_SLASH_B_JS] # generators[2][A_SLASH_B_JS]

====
